---- MODULE Spec2Model ----
(***************************************************************************)
(* State resolution of a CircuitVerse netlist as done by book/src/cv2tikz.py *)
(* (initialize_node_states, compute_node_states and the update_* gate        *)
(* evaluators).  Node indices are 1-based here (0-based in the Python).     *)
(* The last part of the module is the command loop of                      *)
(* scripts/src/flash_helper.py, with its own variables and specification.  *)
(***************************************************************************)
EXTENDS Integers, Sequences, FiniteSets, TLC

VARIABLES
    nodes,                      \* scope['allNodes']: Seq of [type, connections]
    elements,                   \* the circuit elements, in main()'s iteration order
    state,                      \* node index -> nodes[index].get('state')
    element_by_node_index,      \* node index -> element index, 0 for None
    successors_by_node_index,   \* node index -> set of node indices
    sorted_nodes,               \* the list topological_sort appends to
    node_status,                \* node index -> 0 / 1 / 2
    stack,                      \* active topological_sort calls: Seq of [index, todo]
    pc,                         \* position of main() / compute_node_states
    pos,                        \* loop counter of the loop pc names
    error,                      \* the exception raised, "none" if none
    updated,                    \* element passed to update_element by the last reverse step, 0 if none
    reverse_state,              \* copy of state taken when the reverse pass ended
    pages,                      \* flash_helper: page index -> [values, dirty] (Page objects)
    memory,                     \* the device's flash: page index -> its 64 words
    command,                    \* flash_helper: the command the main loop took last
    sent,                       \* what that command made boot_helper write to the device
    count,                      \* number of commands taken from stdin
    running                     \* flash_helper: "running", "exit" or "error"; "off" in cv2tikz runs

cv2tikz_vars ==
    <<nodes, elements, state, element_by_node_index, successors_by_node_index,
      sorted_nodes, node_status, stack, pc, pos, error, updated, reverse_state>>

flash_vars == <<pages, memory, command, sent, count, running>>

vars == <<cv2tikz_vars, flash_vars>>

\* ---------------------------------------------------------------- bounds
MaxWires == 3

\* ------------------------------------------------------------- constants
INPUT_NODE == 0
OUTPUT_NODE == 1
JUNCTION_NODE == 2

\* A missing 'state' key (dict.get returns None).
None == 2
Low == 0
High == 1

States == {Low, High, None}

RECURSIVE SortedSeq(_)
\* The members of a set of integers as an ascending sequence.
SortedSeq(S) ==
    IF S = {} THEN <<>>
    ELSE LET m == CHOOSE x \in S : \A y \in S : x <= y
         IN <<m>> \o SortedSeq(S \ {m})

Range(s) == {s[i] : i \in DOMAIN s}

\* ---------------------------------------------------------------- elements
\* One circuit element.  objectType "SubCircuit" stands for an element without
\* 'objectType' (a sub-circuit instance); name is scope_name_by_id[e['id']].
\* inp / ctl / out are the data-input, control-input and output port nodes
\* (customData.nodes, or inputNodes / outputNodes of a sub-circuit).
Element(t, n, i, c, o, d, v) ==
    [objectType |-> t, name |-> n, inp |-> i, ctl |-> c, out |-> o,
     labelDirection |-> d, value |-> v]

IsSubCircuit(e) == e.objectType = "SubCircuit"

\* 'Normally' in name
IsNormally(name) == name \in {"NormallyOpen", "NormallyClosed"}

\* 'NormallyClosed' in name
IsNormallyClosed(name) == name = "NormallyClosed"

element_nodes(e) == Range(e.inp) \cup Range(e.ctl) \cup Range(e.out)

\* all_nodes[nodes[role][k]].get('state'); IndexError is reported by UpdateError.
In(e, st, k) == IF k <= Len(e.inp) THEN st[e.inp[k]] ELSE None
Ctl(e, st) == IF Len(e.ctl) >= 1 THEN st[e.ctl[1]] ELSE None

\* --------------------------------------------------------- gate evaluators
\* Each update_* returns the node states after the call.

\* Faulty variant of update_subcircuit: a normally-closed contact conducts only
\* when the control is Low.
update_subcircuit_low(e, st) ==
    LET i == In(e, st, 1)
        c == In(e, st, 2)
    IN IF IsNormallyClosed(e.name)
       THEN IF i # None /\ c = Low THEN [st EXCEPT ![e.out[1]] = i] ELSE st
       ELSE IF i # None /\ c = High THEN [st EXCEPT ![e.out[1]] = i] ELSE st

update_subcircuit(e, st) ==
    LET i == In(e, st, 1)
        c == In(e, st, 2)
    IN IF IsNormallyClosed(e.name)
       THEN IF i # None /\ c # High THEN [st EXCEPT ![e.out[1]] = i] ELSE st
       ELSE IF i # None /\ c = High THEN [st EXCEPT ![e.out[1]] = i] ELSE st

\* Faulty variant of maybe_update_subcircuit_input: the control is not consulted.
maybe_update_subcircuit_input_any(e, st) ==
    LET o == st[e.out[1]]
    IN IF o # None THEN [st EXCEPT ![e.inp[1]] = o] ELSE st

maybe_update_subcircuit_input(e, st) ==
    LET c == In(e, st, 2)
        o == st[e.out[1]]
    IN IF IsNormallyClosed(e.name)
       THEN IF o # None /\ c # High THEN [st EXCEPT ![e.inp[1]] = o] ELSE st
       ELSE IF o # None /\ c = High THEN [st EXCEPT ![e.inp[1]] = o] ELSE st

\* Faulty variant of update_and_gate: an output only when both inputs are defined.
update_and_gate_strict(e, st) ==
    LET i0 == In(e, st, 1)
        i1 == In(e, st, 2)
    IN IF i0 # None /\ i1 # None
       THEN [st EXCEPT ![e.out[1]] = IF i0 = High /\ i1 = High THEN High ELSE Low]
       ELSE st

update_and_gate(e, st) ==
    LET i0 == In(e, st, 1)
        i1 == In(e, st, 2)
    IN IF i0 # None \/ i1 # None
       THEN [st EXCEPT ![e.out[1]] = IF i0 = High /\ i1 = High THEN High ELSE Low]
       ELSE st

\* Faulty variant of update_demultiplexer: the output not selected is left alone.
update_demultiplexer_unforced(e, st) ==
    LET i == In(e, st, 1)
        c == Ctl(e, st)
    IN IF i # None /\ c # None
       THEN IF c = Low
            THEN [st EXCEPT ![e.out[1]] = i]
            ELSE [st EXCEPT ![e.out[2]] = i]
       ELSE st

update_demultiplexer(e, st) ==
    LET i == In(e, st, 1)
        c == Ctl(e, st)
    IN IF i # None /\ c # None
       THEN IF c = Low
            THEN [st EXCEPT ![e.out[1]] = i, ![e.out[2]] = Low]
            ELSE [st EXCEPT ![e.out[1]] = Low, ![e.out[2]] = i]
       ELSE st

update_multiplexer(e, st) ==
    LET i0 == In(e, st, 1)
        i1 == In(e, st, 2)
        c == Ctl(e, st)
    IN IF c # None
       THEN IF c = Low /\ i0 # None THEN [st EXCEPT ![e.out[1]] = i0]
            ELSE IF i1 # None THEN [st EXCEPT ![e.out[1]] = i1]
            ELSE st
       ELSE st

update_nand_gate(e, st) ==
    LET i0 == In(e, st, 1)
        i1 == In(e, st, 2)
    IN IF i0 # None \/ i1 # None
       THEN [st EXCEPT ![e.out[1]] = IF i0 = High /\ i1 = High THEN Low ELSE High]
       ELSE st

update_nor_gate(e, st) ==
    LET i0 == In(e, st, 1)
        i1 == In(e, st, 2)
    IN IF i0 # None \/ i1 # None
       THEN [st EXCEPT ![e.out[1]] = IF i0 = High \/ i1 = High THEN Low ELSE High]
       ELSE st

update_not_gate(e, st) ==
    LET i == In(e, st, 1)
    IN IF i # None
       THEN [st EXCEPT ![e.out[1]] = IF i = Low THEN High ELSE Low]
       ELSE st

update_or_gate(e, st) ==
    LET i0 == In(e, st, 1)
        i1 == In(e, st, 2)
        i2 == In(e, st, 3)
    IN IF Len(e.inp) = 3
       THEN IF i0 # None \/ i1 # None \/ i2 # None
            THEN [st EXCEPT ![e.out[1]] =
                      IF i0 = High \/ i1 = High \/ i2 = High THEN High ELSE Low]
            ELSE st
       ELSE IF i0 # None \/ i1 # None
            THEN [st EXCEPT ![e.out[1]] = IF i0 = High \/ i1 = High THEN High ELSE Low]
            ELSE st

\* Faulty variant of update_sr_flip_flop: R High resets the latch.
update_sr_flip_flop_reset(e, st) ==
    LET i == In(e, st, 1)
        r == In(e, st, 2)
    IN [st EXCEPT ![e.out[1]] = IF i = High /\ r # High THEN High ELSE Low]

update_sr_flip_flop(e, st) ==
    LET i == In(e, st, 1)
    IN [st EXCEPT ![e.out[1]] = IF i = High THEN High ELSE Low]

\* Faulty variant of update_tristate: the enable input is active low.
update_tristate_active_low(e, st) ==
    LET i == In(e, st, 1)
        c == Ctl(e, st)
    IN IF i # None /\ c # None
       THEN [st EXCEPT ![e.out[1]] = IF c = Low THEN i ELSE None]
       ELSE st

update_tristate(e, st) ==
    LET i == In(e, st, 1)
        c == Ctl(e, st)
    IN IF i # None /\ c # None
       THEN [st EXCEPT ![e.out[1]] = IF c = High THEN i ELSE None]
       ELSE st

update_xor_gate(e, st) ==
    LET i0 == In(e, st, 1)
        i1 == In(e, st, 2)
    IN IF i0 # None \/ i1 # None
       THEN [st EXCEPT ![e.out[1]] = IF (i0 = High) # (i1 = High) THEN High ELSE Low]
       ELSE st

\* Faulty variant of UpdateError: the OR evaluator tests the input count before
\* it looks for a third input.
UpdateErrorOrOfTwo(e) ==
    IF IsSubCircuit(e)
    THEN IF Len(e.inp) < 2 \/ Len(e.out) < 1 THEN "index" ELSE "none"
    ELSE IF e.objectType \in {"AndGate", "Multiplexer", "NandGate", "NorGate", "OrGate", "XorGate"}
    THEN IF Len(e.inp) < 2 THEN "index"
         ELSE IF Len(e.inp) # 2 THEN "unsupported" ELSE "none"
    ELSE "none"

\* The exception an evaluator raises for element e, "none" if it returns:
\* "index" for nodes['inp'][1] (or [0]) past the end of the list, "unsupported"
\* for the explicit input-count checks.
UpdateError(e) ==
    IF IsSubCircuit(e)
    THEN IF Len(e.inp) < 2 \/ Len(e.out) < 1 THEN "index" ELSE "none"
    ELSE IF e.objectType \in {"AndGate", "Multiplexer", "NandGate", "NorGate", "XorGate"}
    THEN IF Len(e.inp) < 2 THEN "index"
         ELSE IF Len(e.inp) # 2 THEN "unsupported" ELSE "none"
    ELSE IF e.objectType = "OrGate"
    THEN IF Len(e.inp) < 2 THEN "index"
         ELSE IF Len(e.inp) \notin {2, 3} THEN "unsupported" ELSE "none"
    ELSE "none"

update_element(e, st) ==
    CASE IsSubCircuit(e) -> update_subcircuit(e, st)
      [] e.objectType = "AndGate" -> update_and_gate(e, st)
      [] e.objectType = "Demultiplexer" -> update_demultiplexer(e, st)
      [] e.objectType = "Multiplexer" -> update_multiplexer(e, st)
      [] e.objectType = "NandGate" -> update_nand_gate(e, st)
      [] e.objectType = "NorGate" -> update_nor_gate(e, st)
      [] e.objectType = "NotGate" -> update_not_gate(e, st)
      [] e.objectType = "OrGate" -> update_or_gate(e, st)
      [] e.objectType = "SRflipFlop" -> update_sr_flip_flop(e, st)
      [] e.objectType = "TriState" -> update_tristate(e, st)
      [] e.objectType = "XorGate" -> update_xor_gate(e, st)
      [] OTHER -> st

\* ------------------------------------------------------------ initialization
\* Faulty variant of SeedStates: the outputs of a relay are seeded Low as well.
SeedStatesRelayToo(e, st) ==
    IF IsSubCircuit(e)
    THEN [n \in DOMAIN st |-> IF n \in Range(e.out) THEN Low ELSE st[n]]
    ELSE CASE e.objectType \in {"Clock", "Ground"} -> [st EXCEPT ![e.out[1]] = Low]
           [] e.objectType \in {"Button", "Input"} -> [st EXCEPT ![e.out[1]] = e.value]
           [] e.objectType = "Power" -> [st EXCEPT ![e.out[1]] = High]
           [] e.objectType = "DflipFlop" ->
                [st EXCEPT ![e.out[1]] = IF e.labelDirection = "UP" THEN High ELSE Low]
           [] e.objectType \in {"NorGate", "NotGate"} ->
                IF e.labelDirection = "UP" THEN [st EXCEPT ![e.out[1]] = High]
                ELSE IF e.labelDirection = "DOWN" THEN [st EXCEPT ![e.out[1]] = Low]
                ELSE st
           [] OTHER -> st

\* The node states after initialize_node_states(e, ...): the seeds.
SeedStates(e, st) ==
    IF IsSubCircuit(e)
    THEN IF ~IsNormally(e.name)
         THEN [n \in DOMAIN st |-> IF n \in Range(e.out) THEN Low ELSE st[n]]
         ELSE st
    ELSE CASE e.objectType \in {"Clock", "Ground"} -> [st EXCEPT ![e.out[1]] = Low]
           [] e.objectType \in {"Button", "Input"} -> [st EXCEPT ![e.out[1]] = e.value]
           [] e.objectType = "Power" -> [st EXCEPT ![e.out[1]] = High]
           [] e.objectType = "DflipFlop" ->
                [st EXCEPT ![e.out[1]] = IF e.labelDirection = "UP" THEN High ELSE Low]
           [] e.objectType \in {"NorGate", "NotGate"} ->
                IF e.labelDirection = "UP" THEN [st EXCEPT ![e.out[1]] = High]
                ELSE IF e.labelDirection = "DOWN" THEN [st EXCEPT ![e.out[1]] = Low]
                ELSE st
           [] OTHER -> st

\* element_by_node_index after initialize_node_states for element number k.
SetOwner(k, e, owner) ==
    [n \in DOMAIN owner |-> IF n \in element_nodes(e) THEN k ELSE owner[n]]

\* ------------------------------------------------------- dependency graph
RECURSIVE find_successors(_, _, _)
RECURSIVE find_successors_from(_, _, _, _)

\* find_successors(index, nodes, successors, visited): acc is the pair of the
\* two accumulators, returned as they are when the call returns.
find_successors(index, nds, acc) ==
    find_successors_from(index, 1, nds,
                         [successors |-> acc.successors,
                          visited |-> acc.visited \cup {index}])

\* Faulty variant of find_successors_from: the traversal does not go on from a
\* connection that is an output node.
find_successors_from_stop(index, k, nds, acc) ==
    IF k > Len(nds[index].connections) THEN acc
    ELSE LET s == nds[index].connections[k]
         IN IF s \in acc.visited \/ nds[s].type = OUTPUT_NODE
            THEN find_successors_from(index, k + 1, nds, acc)
            ELSE find_successors_from(index, k + 1, nds,
                     find_successors(s, nds,
                         [successors |-> acc.successors \cup {s},
                          visited |-> acc.visited]))

\* The for loop over nodes[index]['connections'], from its k-th member on.
find_successors_from(index, k, nds, acc) ==
    IF k > Len(nds[index].connections) THEN acc
    ELSE LET s == nds[index].connections[k]
         IN IF s \in acc.visited
            THEN find_successors_from(index, k + 1, nds, acc)
            ELSE find_successors_from(index, k + 1, nds,
                     find_successors(s, nds,
                         [successors |-> IF nds[s].type # OUTPUT_NODE
                                         THEN acc.successors \cup {s}
                                         ELSE acc.successors,
                          visited |-> acc.visited]))

\* Faulty variant of ElementSuccessors: the state of the outputs is not tested.
ElementSuccessorsAll(e, nds, st) ==
    IF IsSubCircuit(e)
    THEN IF IsNormally(e.name) THEN Range(e.out) ELSE {}
    ELSE {n \in element_nodes(e) : nds[n].type = OUTPUT_NODE}

\* Successors of an input node owned by element e.
ElementSuccessors(e, nds, st) ==
    IF IsSubCircuit(e)
    THEN IF IsNormally(e.name) THEN Range(e.out) ELSE {}
    ELSE {n \in element_nodes(e) : nds[n].type = OUTPUT_NODE /\ st[n] = None}

\* The set compute_node_states stores in successors_by_node_index[index].
Successors(index, nds, elems, owner, st) ==
    IF nds[index].type = INPUT_NODE
    THEN IF owner[index] # 0 THEN ElementSuccessors(elems[owner[index]], nds, st) ELSE {}
    ELSE IF nds[index].type = OUTPUT_NODE
    THEN find_successors(index, nds, [successors |-> {}, visited |-> {}]).successors
    ELSE {}

\* Faulty variant of Flood: the state of an output is copied even when it has none.
FloodUnknown(index, succ, st) ==
    [n \in DOMAIN st |-> IF n \in succ[index] THEN st[index] ELSE st[n]]

\* ---------------------------------------------------------------- passes
\* The inner loop of the reverse pass: copy a resolved output onto its successors.
Flood(index, succ, st) ==
    IF st[index] # None
    THEN [n \in DOMAIN st |-> IF n \in succ[index] THEN st[index] ELSE st[n]]
    ELSE st

\* Faulty variant of Evaluates: an output that has a state is evaluated again.
EvaluatesAlways(index, nds, owner, st) ==
    nds[index].type = OUTPUT_NODE /\ owner[index] # 0

\* Whether the reverse pass calls update_element when it visits index.
Evaluates(index, nds, owner, st) ==
    nds[index].type = OUTPUT_NODE /\ owner[index] # 0 /\ st[index] = None

RECURSIVE FirstDefined(_, _, _)
\* The state of the first connection, from the k-th on, that has one; None if none.
FirstDefined(conns, k, st) ==
    IF k > Len(conns) THEN None
    ELSE IF st[conns[k]] # None THEN st[conns[k]]
    ELSE FirstDefined(conns, k + 1, st)

\* Faulty variant of Adopt: the scan has no break, the last connection that has
\* a state wins.
AdoptLast(index, nds, st) ==
    LET conns == nds[index].connections
        defined == {k \in DOMAIN conns : st[conns[k]] # None}
    IN IF defined = {} THEN st
       ELSE [st EXCEPT ![index] = st[conns[CHOOSE k \in defined : \A j \in defined : j <= k]]]

\* The scan of the connections in the forward pass.
Adopt(index, nds, st) ==
    LET s == FirstDefined(nds[index].connections, 1, st)
    IN IF s # None THEN [st EXCEPT ![index] = s] ELSE st

\* One iteration of the forward pass on a node without a state.
ForwardVisit(index, nds, elems, owner, st) ==
    LET adopted == Adopt(index, nds, st)
    IN IF nds[index].type = OUTPUT_NODE /\ owner[index] # 0
          /\ IsSubCircuit(elems[owner[index]])
       THEN maybe_update_subcircuit_input(elems[owner[index]], adopted)
       ELSE adopted

\* ------------------------------------------------------------- netlists
\* The elements of a circuit, its number of nodes and its pins: the nodes of
\* type 0 that no element lists; the wires are chosen in Init.
PinLayout(n, elems, pins) == [n |-> n, elements |-> elems, pins |-> pins]

Layout(n, elems) == PinLayout(n, elems, {})

NoPorts == <<>>

NotGate(i, o, d) == Element("NotGate", "", <<i>>, NoPorts, <<o>>, d, Low)
Gate(t, i, o, d) == Element(t, "", i, NoPorts, <<o>>, d, Low)
Source(t, o, v) == Element(t, "", NoPorts, NoPorts, <<o>>, "RIGHT", v)
SubCircuit(name, i, o) == Element("SubCircuit", name, i, NoPorts, o, "RIGHT", Low)

Directions == {"UP", "DOWN", "RIGHT"}
SubCircuitNames == {"NormallyOpen", "NormallyClosed", "FullAdder"}

\* Two inverters and a power source: feedback loops and loop-breakers.
InverterLayouts ==
    {Layout(5, <<NotGate(1, 2, d), NotGate(3, 4, "RIGHT"), Source("Power", 5, High)>>) :
        d \in Directions}

\* A tri-state buffer on a bus with two more sources.
TriStateLayouts ==
    {Layout(6, <<Element("TriState", "", <<1>>, <<2>>, <<3>>, "RIGHT", Low),
                 Source("Input", 4, v), Source("Power", 5, High)>>) :
        v \in {Low, High}}

\* An inverter, a power source and a pin of no element.
PinLayouts ==
    {PinLayout(4, <<NotGate(1, 2, "RIGHT"), Source("Power", 3, High)>>, {4})}

\* A relay (or an ordinary sub-circuit) between a power and a ground source.
RelayLayouts ==
    {Layout(6, <<SubCircuit(name, <<1, 2>>, <<3>>), Source("Power", 4, High),
                 Source("Ground", 5, Low)>>) :
        name \in SubCircuitNames}

\* A demultiplexer (two outputs) and a button.
DemultiplexerLayouts ==
    {Layout(6, <<Element("Demultiplexer", "", <<1>>, <<2>>, <<3, 4>>, "RIGHT", Low),
                 Source("Button", 5, v)>>) :
        v \in {Low, High}}

\* A D flip-flop, a NOR gate and a clock.
FlipFlopLayouts ==
    {Layout(6, <<Element("DflipFlop", "", <<1>>, NoPorts, <<2>>, d, Low),
                 Gate("NorGate", <<3, 4>>, 5, d), Source("Clock", 6, Low)>>) :
        d \in Directions}

\* A gate with two or three inputs, flagged or not, and its sources.
GateLayouts ==
    {Layout(5, <<Gate(t, <<1, 2>>, 3, "RIGHT"), Source("Input", 4, High),
                 Source("Ground", 5, Low)>>) :
        t \in {"AndGate", "XorGate"}}
    \cup {Layout(5, <<Gate(t, <<1, 2, 3>>, 4, "RIGHT"), Source("Power", 5, High)>>) :
        t \in {"AndGate", "OrGate"}}
    \cup {Layout(5, <<Gate("NorGate", <<1, 2, 3>>, 4, d), Source("Power", 5, High)>>) :
        d \in {"UP", "RIGHT"}}

Layouts ==
    InverterLayouts \cup TriStateLayouts \cup RelayLayouts \cup DemultiplexerLayouts
    \cup FlipFlopLayouts \cup GateLayouts \cup PinLayouts

\* The layouts of the runs checked for termination.
LiveLayouts == InverterLayouts \cup RelayLayouts \cup GateLayouts \cup PinLayouts

\* node['type'] of node i of layout l: 0 for an input pin, 1 for an output pin,
\* 2 for any other node no element lists.
NodeType(l, i) ==
    IF \E k \in DOMAIN l.elements : i \in Range(l.elements[k].out) THEN OUTPUT_NODE
    ELSE IF \E k \in DOMAIN l.elements :
                i \in Range(l.elements[k].inp) \cup Range(l.elements[k].ctl)
    THEN INPUT_NODE
    ELSE IF i \in l.pins THEN INPUT_NODE
    ELSE JUNCTION_NODE

Pairs(n) == {{i, j} : i, j \in 1..n} \ {{i} : i \in 1..n}

RECURSIVE WiringsUpTo(_, _)
\* The wirings of n nodes with at most k wires.
WiringsUpTo(n, k) ==
    IF k = 0 THEN {{}}
    ELSE LET less == WiringsUpTo(n, k - 1)
         IN less \cup {w \cup {p} : w \in less, p \in Pairs(n)}

Wirings(n) == WiringsUpTo(n, MaxWires)

\* allNodes of layout l wired by w; the connections of a node in ascending order.
MakeNodes(l, w) ==
    [i \in 1..l.n |->
        [type |-> NodeType(l, i),
         connections |-> SortedSeq({j \in 1..l.n : {i, j} \in w})]]

\* ----------------------------------------------------------------- main
\* flash_helper.py is not running.
FlashOff ==
    /\ pages = <<>> /\ memory = <<>> /\ command = [kind |-> "none"] /\ sent = <<>>
    /\ count = 0 /\ running = "off"

Clear(n) == [i \in 1..n |-> None]

InitOf(layouts) ==
    \E l \in layouts : \E w \in Wirings(l.n) :
        /\ nodes = MakeNodes(l, w)
        /\ elements = l.elements
        /\ state = Clear(l.n)
        /\ element_by_node_index = [i \in 1..l.n |-> 0]
        /\ successors_by_node_index = [i \in 1..l.n |-> {}]
        /\ sorted_nodes = <<>>
        /\ node_status = [i \in 1..l.n |-> 0]
        /\ stack = <<>>
        /\ pc = "init"
        /\ pos = 1
        /\ error = "none"
        /\ updated = 0
        /\ reverse_state = Clear(l.n)
        /\ FlashOff

Init == InitOf(Layouts)

InitLive == InitOf(LiveLayouts)

\* main(): one call of initialize_node_states, for element number pos.
Initialize ==
    /\ pc = "init"
    /\ state' = SeedStates(elements[pos], state)
    /\ element_by_node_index' = SetOwner(pos, elements[pos], element_by_node_index)
    /\ IF pos < Len(elements)
       THEN pos' = pos + 1 /\ pc' = pc
       ELSE pos' = 1 /\ pc' = "successors"
    /\ UNCHANGED <<nodes, elements, successors_by_node_index, sorted_nodes, node_status,
                   stack, error, updated, reverse_state,
                   flash_vars>>

\* compute_node_states: the loop that fills successors_by_node_index.
BuildSuccessors ==
    /\ pc = "successors"
    /\ successors_by_node_index' =
          [i \in DOMAIN nodes |->
              Successors(i, nodes, elements, element_by_node_index, state)]
    /\ pc' = "sort"
    /\ pos' = 1
    /\ UNCHANGED <<nodes, elements, state, element_by_node_index, sorted_nodes,
                   node_status, stack, error, updated, reverse_state,
                   flash_vars>>

\* The indices the root loop of the sort has still to look at and that are unvisited.
Roots == {i \in DOMAIN nodes : i >= pos /\ node_status[i] = 0}

Frame(index) == [index |-> index, todo |-> successors_by_node_index[index]]

Top == stack[Len(stack)]

\* The root loop calls topological_sort on the next node of status 0.
SortRoot ==
    /\ pc = "sort" /\ stack = <<>> /\ Roots # {}
    /\ LET r == CHOOSE i \in Roots : \A j \in Roots : i <= j
       IN /\ node_status' = [node_status EXCEPT ![r] = 1]
          /\ stack' = <<Frame(r)>>
          /\ pos' = r + 1
    /\ UNCHANGED <<nodes, elements, state, element_by_node_index,
                   successors_by_node_index, sorted_nodes, pc, error, updated,
                   reverse_state,
                   flash_vars>>

\* The for loop of a call takes a successor of status 0: the recursive call runs.
SortDescend ==
    /\ pc = "sort" /\ stack # <<>>
    /\ \E s \in Top.todo :
        /\ node_status[s] = 0
        /\ node_status' = [node_status EXCEPT ![s] = 1]
        /\ stack' = Append([stack EXCEPT ![Len(stack)].todo = @ \ {s}], Frame(s))
    /\ UNCHANGED <<nodes, elements, state, element_by_node_index,
                   successors_by_node_index, sorted_nodes, pc, pos, error, updated,
                   reverse_state,
                   flash_vars>>

\* Faulty variant of SortSkip: any visited successor is skipped, so that a
\* successor on the active path is not told from a finished one.
SortSkipVisited ==
    /\ pc = "sort" /\ stack # <<>>
    /\ \E s \in Top.todo :
        /\ node_status[s] # 0
        /\ stack' = [stack EXCEPT ![Len(stack)].todo = @ \ {s}]
    /\ UNCHANGED <<nodes, elements, state, element_by_node_index,
                   successors_by_node_index, sorted_nodes, node_status, pc, pos, error,
                   updated, reverse_state,
                   flash_vars>>

\* The recursive call on a successor of status 2 returns at once.
SortSkip ==
    /\ pc = "sort" /\ stack # <<>>
    /\ \E s \in Top.todo :
        /\ node_status[s] = 2
        /\ stack' = [stack EXCEPT ![Len(stack)].todo = @ \ {s}]
    /\ UNCHANGED <<nodes, elements, state, element_by_node_index,
                   successors_by_node_index, sorted_nodes, node_status, pc, pos, error,
                   updated, reverse_state,
                   flash_vars>>

\* Faulty variant of SortCycle: the test of status 1 is missing, and the call on
\* a successor in progress runs again from that successor.
SortCycleAgain ==
    /\ pc = "sort" /\ stack # <<>>
    /\ \E s \in Top.todo :
        /\ node_status[s] = 1
        /\ LET k == CHOOSE j \in DOMAIN stack : stack[j].index = s
           IN /\ stack' = Append(SubSeq(stack, 1, k - 1), Frame(s))
              /\ node_status' = [n \in DOMAIN node_status |->
                                    IF \E j \in (k + 1)..Len(stack) : stack[j].index = n
                                    THEN 0 ELSE node_status[n]]
    /\ UNCHANGED <<nodes, elements, state, element_by_node_index,
                   successors_by_node_index, sorted_nodes, pc, pos, error, updated,
                   reverse_state,
                   flash_vars>>

\* The recursive call on a successor of status 1 raises 'Cyclic graph!'.
SortCycle ==
    /\ pc = "sort" /\ stack # <<>>
    /\ \E s \in Top.todo : node_status[s] = 1
    /\ error' = "cyclic"
    /\ pc' = "failed"
    /\ UNCHANGED <<nodes, elements, state, element_by_node_index,
                   successors_by_node_index, sorted_nodes, node_status, stack, pos,
                   updated, reverse_state,
                   flash_vars>>

\* Faulty variant of SortReturn: the node is put at the front of sorted_nodes.
SortReturnPrepend ==
    /\ pc = "sort" /\ stack # <<>> /\ Top.todo = {}
    /\ node_status' = [node_status EXCEPT ![Top.index] = 2]
    /\ sorted_nodes' = <<Top.index>> \o sorted_nodes
    /\ stack' = SubSeq(stack, 1, Len(stack) - 1)
    /\ UNCHANGED <<nodes, elements, state, element_by_node_index,
                   successors_by_node_index, pc, pos, error, updated, reverse_state,
                   flash_vars>>

\* The for loop of a call is over: the node gets status 2 and is appended.
SortReturn ==
    /\ pc = "sort" /\ stack # <<>> /\ Top.todo = {}
    /\ node_status' = [node_status EXCEPT ![Top.index] = 2]
    /\ sorted_nodes' = Append(sorted_nodes, Top.index)
    /\ stack' = SubSeq(stack, 1, Len(stack) - 1)
    /\ UNCHANGED <<nodes, elements, state, element_by_node_index,
                   successors_by_node_index, pc, pos, error, updated, reverse_state,
                   flash_vars>>

\* The root loop is over: the reverse pass starts at the end of sorted_nodes.
SortEnd ==
    /\ pc = "sort" /\ stack = <<>> /\ Roots = {}
    /\ pc' = "reverse"
    /\ pos' = Len(sorted_nodes)
    /\ UNCHANGED <<nodes, elements, state, element_by_node_index,
                   successors_by_node_index, sorted_nodes, node_status, stack, error,
                   updated, reverse_state,
                   flash_vars>>

\* The node the current pass is at.
Current == sorted_nodes[pos]

Owner(index) == elements[element_by_node_index[index]]

\* One iteration of the reverse pass that raises no exception.
ReverseStep ==
    /\ pc = "reverse"
    /\ LET evaluates == Evaluates(Current, nodes, element_by_node_index, state)
           evaluated == IF evaluates THEN update_element(Owner(Current), state) ELSE state
       IN /\ evaluates => UpdateError(Owner(Current)) = "none"
          /\ state' = IF nodes[Current].type = OUTPUT_NODE
                      THEN Flood(Current, successors_by_node_index, evaluated)
                      ELSE state
          /\ updated' = IF evaluates THEN element_by_node_index[Current] ELSE 0
    /\ IF pos > 1
       THEN pos' = pos - 1 /\ pc' = pc /\ reverse_state' = reverse_state
       ELSE pos' = 1 /\ pc' = "forward" /\ reverse_state' = state'
    /\ UNCHANGED <<nodes, elements, element_by_node_index, successors_by_node_index,
                   sorted_nodes, node_status, stack, error,
                   flash_vars>>

\* An iteration of the reverse pass in which update_element raises.
ReverseRaise ==
    /\ pc = "reverse"
    /\ Evaluates(Current, nodes, element_by_node_index, state)
    /\ UpdateError(Owner(Current)) # "none"
    /\ error' = UpdateError(Owner(Current))
    /\ pc' = "failed"
    /\ UNCHANGED <<nodes, elements, state, element_by_node_index,
                   successors_by_node_index, sorted_nodes, node_status, stack, pos,
                   updated, reverse_state,
                   flash_vars>>

\* One iteration of the forward pass.
ForwardStep ==
    /\ pc = "forward"
    /\ state' = IF state[Current] # None THEN state
                ELSE ForwardVisit(Current, nodes, elements, element_by_node_index, state)
    /\ updated' = 0
    /\ IF pos < Len(sorted_nodes)
       THEN pos' = pos + 1 /\ pc' = pc
       ELSE pos' = pos /\ pc' = "done"
    /\ UNCHANGED <<nodes, elements, element_by_node_index, successors_by_node_index,
                   sorted_nodes, node_status, stack, error, reverse_state,
                   flash_vars>>

Next ==
    \/ Initialize
    \/ BuildSuccessors
    \/ SortRoot
    \/ SortDescend
    \/ SortSkip
    \/ SortCycle
    \/ SortReturn
    \/ SortEnd
    \/ ReverseStep
    \/ ReverseRaise
    \/ ForwardStep

Spec == Init /\ [][Next]_vars

\* The program is sequential: as long as a step is possible the interpreter
\* takes one.
SpecLive == InitLive /\ [][Next]_vars /\ WF_vars(Next)

\* ------------------------------------------------- one evaluator call alone
\* The elements update_element is applied to on their own: every evaluator, the
\* relays, and a gate with an unsupported number of inputs.
GateElements ==
    {Gate(t, <<1, 2>>, 3, "RIGHT") :
        t \in {"AndGate", "NandGate", "NorGate", "OrGate", "XorGate"}}
    \cup {Gate("OrGate", <<1, 2, 3>>, 4, "RIGHT"), Gate("AndGate", <<1, 2, 3>>, 4, "RIGHT"),
          NotGate(1, 2, "RIGHT"),
          Element("Multiplexer", "", <<1, 2>>, <<3>>, <<4>>, "RIGHT", Low),
          Element("Demultiplexer", "", <<1>>, <<2>>, <<3, 4>>, "RIGHT", Low),
          Element("TriState", "", <<1>>, <<2>>, <<3>>, "RIGHT", Low),
          Element("SRflipFlop", "", <<1, 2>>, NoPorts, <<3>>, "RIGHT", Low),
          SubCircuit("NormallyOpen", <<1, 2>>, <<3>>),
          SubCircuit("NormallyClosed", <<1, 2>>, <<3>>)}

\* The element with unwired ports: its inputs hold any states, its outputs none
\* (the reverse pass calls update_element only for an output without a state).
GateInit ==
    \E e \in GateElements :
      LET l == Layout(Cardinality(element_nodes(e)), <<e>>)
      IN \E st \in [1..l.n -> States] :
        /\ \A o \in Range(e.out) : st[o] = None
        /\ nodes = MakeNodes(l, {})
        /\ elements = l.elements
        /\ state = st
        /\ element_by_node_index = [i \in 1..l.n |-> 1]
        /\ successors_by_node_index = [i \in 1..l.n |-> {}]
        /\ sorted_nodes = <<>>
        /\ node_status = [i \in 1..l.n |-> 0]
        /\ stack = <<>>
        /\ pc = "gate"
        /\ pos = 1
        /\ error = "none"
        /\ updated = 0
        /\ reverse_state = Clear(l.n)
        /\ FlashOff

\* update_element(element, nodes) returns.
GateEval ==
    /\ pc = "gate"
    /\ UpdateError(elements[1]) = "none"
    /\ state' = update_element(elements[1], state)
    /\ updated' = 1
    /\ pc' = "evaluated"
    /\ UNCHANGED <<nodes, elements, element_by_node_index, successors_by_node_index,
                   sorted_nodes, node_status, stack, pos, error, reverse_state,
                   flash_vars>>

\* update_element(element, nodes) raises.
GateRaise ==
    /\ pc = "gate"
    /\ UpdateError(elements[1]) # "none"
    /\ error' = UpdateError(elements[1])
    /\ pc' = "failed"
    /\ UNCHANGED <<nodes, elements, state, element_by_node_index,
                   successors_by_node_index, sorted_nodes, node_status, stack, pos,
                   updated, reverse_state,
                   flash_vars>>

GateNext ==
    \/ GateEval
    \/ GateRaise

SpecGate == GateInit /\ [][GateNext]_vars

\* =================================================================== claims
\* ------------------------------------------------------------ vocabulary
RECURSIVE Connected(_)
\* The nodes reachable from the set S along connections.
Connected(S) ==
    LET T == S \cup UNION {Range(nodes[i].connections) : i \in S}
    IN IF T = S THEN S ELSE Connected(T)

\* The wire net of node n.
Net(n) == Connected({n})

RECURSIVE SuccessorClosure(_)
SuccessorClosure(S) ==
    LET T == S \cup UNION {successors_by_node_index[i] : i \in S}
    IN IF T = S THEN S ELSE SuccessorClosure(T)

\* The nodes reachable from n by one or more successor edges.
Descendants(n) == SuccessorClosure(successors_by_node_index[n])

\* The successors relation has a directed cycle.
HasCycle == \E n \in DOMAIN nodes : n \in Descendants(n)

\* The place of node n in sorted_nodes.
Position(n) == CHOOSE k \in DOMAIN sorted_nodes : sorted_nodes[k] = n

IsOutput(n) == nodes[n].type = OUTPUT_NODE

\* The seed the specification lists for the outputs of element e, None if none.
ListedSeed(e) ==
    CASE e.objectType \in {"Ground", "Clock"} -> Low
      [] e.objectType = "Power" -> High
      [] e.objectType \in {"Button", "Input"} -> e.value
      [] e.objectType = "DflipFlop" -> IF e.labelDirection = "UP" THEN High ELSE Low
      [] e.objectType = "SubCircuit" /\ e.name \notin {"NormallyOpen", "NormallyClosed"} -> Low
      [] OTHER -> None

\* A NOT or NOR gate flagged as a loop-breaker.
IsLoopBreaker(e) ==
    e.objectType \in {"NotGate", "NorGate"} /\ e.labelDirection \in {"UP", "DOWN"}

\* The seed of element e, loop-breakers included.
SeedOf(e) ==
    IF IsLoopBreaker(e) THEN (IF e.labelDirection = "UP" THEN High ELSE Low)
    ELSE ListedSeed(e)

ElementOf(n) == elements[CHOOSE k \in DOMAIN elements : n \in element_nodes(elements[k])]

HasElement(n) == \E k \in DOMAIN elements : n \in element_nodes(elements[k])

\* The element evaluated alone under SpecGate, and the states of its ports.
TheGate == elements[1]
GateIn(k) == state[TheGate.inp[k]]
GateCtl == state[TheGate.ctl[1]]
GateOut(k) == state[TheGate.out[k]]
Evaluated(t) == pc = "evaluated" /\ TheGate.objectType = t

\* --------------------------------------------------------------------- C1
\* C1: when both passes are over, on every wire net on which exactly one output
\* node was resolved by the reverse pass (seeded or evaluated; any other output
\* node of the net then being Unknown), all nodes of the net have the state of
\* that output node.
C1_NetFlooding ==
    pc = "done" =>
        \A s \in DOMAIN nodes :
            (/\ IsOutput(s)
             /\ reverse_state[s] # None
             /\ \A t \in Net(s) \ {s} : IsOutput(t) => reverse_state[t] = None)
            => \A n \in Net(s) : state[n] = state[s]

\* --------------------------------------------------------------------- C2
\* C2: when the successors graph is acyclic and the sort is over, sorted_nodes
\* holds every node index exactly once and every successor B of a node A has
\* been appended before A (so the reverse pass visits A before B).
C2_TopologicalOrder ==
    (pc \notin {"init", "successors", "sort"} /\ ~HasCycle) =>
        /\ error # "cyclic"
        /\ Len(sorted_nodes) = Len(nodes)
        /\ Range(sorted_nodes) = DOMAIN nodes
        /\ \A a \in DOMAIN nodes : \A b \in successors_by_node_index[a] :
               Position(b) < Position(a)

\* C2 witness: a finished sort of an acyclic graph with an edge and an isolated junction.
C2_Witness ==
    /\ pc = "reverse" /\ ~HasCycle
    /\ \E a \in DOMAIN nodes : successors_by_node_index[a] # {}
    /\ \E j \in DOMAIN nodes :
           nodes[j].type = JUNCTION_NODE /\ nodes[j].connections = <<>>

\* --------------------------------------------------------------------- C3
\* An element without a seed one of whose inputs lies on the net of its output.
FeedsItself(e) ==
    /\ ~IsSubCircuit(e) /\ SeedOf(e) = None /\ e.out # <<>>
    /\ \E i \in Range(e.inp) \cup Range(e.ctl) : i \in Net(e.out[1])

\* C3: 'Cyclic graph!' is raised only if the successors relation has a directed
\* cycle, the sort ends without it only if the relation has none, and a run
\* with an unseeded element that feeds itself through a wire net raises it.
C3_CycleDetection ==
    /\ error = "cyclic" => HasCycle
    /\ (pc \notin {"init", "successors", "sort"} /\ error # "cyclic") => ~HasCycle
    /\ (pc \notin {"init", "successors", "sort"}
        /\ \E k \in DOMAIN elements : FeedsItself(elements[k])) => error = "cyclic"

\* C3 witness: the error raised for an inverter whose output is wired to its input.
C3_Witness ==
    /\ error = "cyclic"
    /\ \E k \in DOMAIN elements :
          /\ elements[k].objectType = "NotGate" /\ FeedsItself(elements[k])

\* --------------------------------------------------------------------- C4
TruthTableGates == {"AndGate", "NandGate", "OrGate", "NorGate", "XorGate", "NotGate"}

\* The number of inputs of the evaluated gate that are High.
HighInputs == Cardinality({k \in DOMAIN TheGate.inp : GateIn(k) = High})

\* The gate's Boolean function of its inputs, the Unknown ones counted as Low.
BooleanValue ==
    CASE TheGate.objectType = "AndGate" -> HighInputs = Len(TheGate.inp)
      [] TheGate.objectType = "NandGate" -> HighInputs # Len(TheGate.inp)
      [] TheGate.objectType = "OrGate" -> HighInputs >= 1
      [] TheGate.objectType = "NorGate" -> HighInputs = 0
      [] TheGate.objectType = "XorGate" -> HighInputs % 2 = 1
      [] TheGate.objectType = "NotGate" -> HighInputs = 0

\* C4: an AND, NAND, OR, NOR, XOR or NOT evaluator leaves a defined output iff
\* some input is defined, and that output is the gate's Boolean function with
\* the Unknown inputs taken as Low.
C4_GateTruthTables ==
    (pc = "evaluated" /\ TheGate.objectType \in TruthTableGates) =>
        /\ GateOut(1) # None <=> \E k \in DOMAIN TheGate.inp : GateIn(k) # None
        /\ GateOut(1) # None => GateOut(1) = (IF BooleanValue THEN High ELSE Low)

\* C4 witness: an AND gate with inputs High and Unknown has output Low.
C4_Witness ==
    /\ Evaluated("AndGate")
    /\ GateIn(1) = High /\ GateIn(2) = None /\ GateOut(1) = Low

\* --------------------------------------------------------------------- C5
\* C5: the multiplexer output is input 0 when control is Low, input 1 when
\* control is High, and Unknown when control is Unknown.
C5_Multiplexer ==
    Evaluated("Multiplexer") =>
        GateOut(1) = (CASE GateCtl = Low -> GateIn(1)
                        [] GateCtl = High -> GateIn(2)
                        [] OTHER -> None)

C7_TriState ==
    Evaluated("TriState") =>
        /\ GateCtl = High => GateOut(1) = GateIn(1)
        /\ GateCtl # High => GateOut(1) = None

\* C7 witness: an enabled buffer passes a Low input.
C7_Witness ==
    Evaluated("TriState") /\ GateCtl = High /\ GateIn(1) = Low /\ GateOut(1) = Low

\* --------------------------------------------------------------------- C8
\* C8: the SR-latch output is always defined, High iff S is High, for every R.
C8_SRLatch ==
    Evaluated("SRflipFlop") =>
        GateOut(1) = (IF GateIn(1) = High THEN High ELSE Low)

\* C8 witness: S High and R High give High.
C8_Witness ==
    Evaluated("SRflipFlop") /\ GateIn(1) = High /\ GateIn(2) = High /\ GateOut(1) = High

\* --------------------------------------------------------------------- C9
\* The outputs of element e that initialization seeds.
SeededOutputs(e) ==
    IF SeedOf(e) = None THEN {}
    ELSE IF IsSubCircuit(e) THEN Range(e.out) ELSE {e.out[1]}

\* An inverter flagged UP whose output is wired to its input, nothing else wired.
LoopBreakerAlone(e) ==
    /\ e.objectType = "NotGate" /\ e.labelDirection = "UP"
    /\ Net(e.out[1]) = {e.inp[1], e.out[1]}
    /\ \A n \in DOMAIN nodes \ Net(e.out[1]) : nodes[n].connections = <<>>

\* C9: from the end of initialization on, every seeded output holds its seed;
\* update_element is never called for an element with a seeded output; and an
\* inverter flagged UP that feeds its own input resolves without error, High.
C9_SeedsKept ==
    pc \notin {"init", "gate", "evaluated"} =>
        /\ \A k \in DOMAIN elements : \A n \in SeededOutputs(elements[k]) :
               state[n] = SeedOf(elements[k])
        /\ updated # 0 => SeededOutputs(elements[updated]) = {}
        /\ \A k \in DOMAIN elements :
               LoopBreakerAlone(elements[k]) =>
                   /\ error = "none"
                   /\ pc = "done" => state[elements[k].out[1]] = High

\* C9 witness: the flagged inverter feeding itself, resolved.
C9_Witness ==
    /\ pc = "done"
    /\ \E k \in DOMAIN elements :
          /\ LoopBreakerAlone(elements[k])
          /\ state[elements[k].out[1]] = High
          /\ state[elements[k].inp[1]] = High

\* -------------------------------------------------------------------- C10
\* C10 as stated: after initialization every output listed holds its seed and
\* every other node is Unknown.
C10_SeedsAsListed ==
    pc = "successors" =>
        \A n \in DOMAIN nodes :
            state[n] = (IF HasElement(n) /\ IsOutput(n) THEN ListedSeed(ElementOf(n))
                        ELSE None)

\* C10 amended: the same, the output of a NOT or NOR gate flagged UP (DOWN)
\* being High (Low).
C10_Seeds ==
    pc = "successors" =>
        \A n \in DOMAIN nodes :
            state[n] = (IF HasElement(n) /\ IsOutput(n) THEN SeedOf(ElementOf(n))
                        ELSE None)

\* C10 witness: after initialization a D flip-flop flagged UP holds High beside
\* a clock holding Low.
C10_Witness ==
    /\ pc = "successors"
    /\ \E k \in DOMAIN elements :
          /\ elements[k].objectType = "DflipFlop" /\ elements[k].labelDirection = "UP"
          /\ state[elements[k].out[1]] = High
    /\ \E k \in DOMAIN elements :
          elements[k].objectType = "Clock" /\ state[elements[k].out[1]] = Low

\* ------------------------------------------------------------------ C11
\* A net is shorted in the states st when two of its output nodes hold
\* different defined states.
ShortedIn(st, n) ==
    \E s, t \in Net(n) :
        /\ IsOutput(s) /\ IsOutput(t)
        /\ st[s] # None /\ st[t] # None /\ st[s] # st[t]

Propagating == pc \in {"reverse", "forward"}

\* C11 as stated: once a node is Low or High no step of the reverse or the
\* forward pass changes its state.
C11_WriteOnceAnyNet ==
    [][\A n \in DOMAIN nodes :
          (Propagating /\ state[n] # None) => state'[n] = state[n]]_vars

\* C11: once a node is Low or High, a step of the reverse or the forward pass
\* changes its state only when the node is not an output and its net is
\* shorted after the step (two outputs of the net hold different defined
\* states) and never back to None; the state of an output never changes once
\* defined.
C11_WriteOnce ==
    [][\A n \in DOMAIN nodes :
          (Propagating /\ state[n] # None /\ state'[n] # state[n])
              => (~IsOutput(n) /\ ShortedIn(state', n) /\ state'[n] # None)]_vars

\* A run is over in which a node flooded in the reverse pass, on a net with
\* two resolved outputs in the same state, kept the state it was given.
C11_Witness ==
    /\ pc = "done"
    /\ \E n \in DOMAIN nodes :
          /\ ~IsOutput(n)
          /\ reverse_state[n] # None /\ state[n] = reverse_state[n]
          /\ \E s, t \in Net(n) :
                s # t /\ IsOutput(s) /\ IsOutput(t) /\ state[s] # None /\ state[t] # None
          /\ ~ShortedIn(state, n)

\* ------------------------------------------------------------------ C12
\* A relay has been evaluated alone; its signal input is port 1 and its control
\* port 2 of inputNodes.
EvaluatedRelay(name) == Evaluated("SubCircuit") /\ TheGate.name = name

\* C12: after the relay evaluator the output of a normally-open relay is the
\* signal input's state if the signal is defined and the control is High, the
\* output of a normally-closed relay is the signal input's state if the signal
\* is defined and the control is not High, and in every other case the output
\* is left without a state.
C12_RelayForward ==
    /\ EvaluatedRelay("NormallyOpen") =>
           GateOut(1) = (IF GateIn(1) # None /\ GateIn(2) = High THEN GateIn(1) ELSE None)
    /\ EvaluatedRelay("NormallyClosed") =>
           GateOut(1) = (IF GateIn(1) # None /\ GateIn(2) # High THEN GateIn(1) ELSE None)

\* C12 witness: a normally-closed relay whose control has no state passes a
\* High signal.
C12_Witness ==
    /\ EvaluatedRelay("NormallyClosed")
    /\ GateIn(1) = High /\ GateIn(2) = None /\ GateOut(1) = High

\* ------------------------------------------------------------------ C13
\* The relays of the netlist, and whether the contact of relay e conducts in
\* the states st.
Relays == {k \in DOMAIN elements : IsSubCircuit(elements[k]) /\ IsNormally(elements[k].name)}

Conducts(e, st) ==
    IF IsNormallyClosed(e.name) THEN st[e.inp[2]] # High ELSE st[e.inp[2]] = High

\* An iteration of the forward pass on a node other than n changes the state of n.
WrittenFromElsewhere(n) == pc = "forward" /\ Current # n /\ state'[n] # state[n]

\* C13: in the forward pass the signal input of a relay is changed, by an
\* iteration that visits another node, only when that node is the relay's
\* output, visited without a state and resolved by the iteration, the signal
\* input had no state, and the contact conducts; the signal input then has the
\* state of the output. Whenever the output is so resolved and the contact
\* conducts the signal input ends with the state of the output. A signal input
\* that has a state is never changed.
C13_RelayBackward ==
    [][\A k \in Relays :
          LET e == elements[k]
              i == e.inp[1]
              o == e.out[1]
          IN /\ WrittenFromElsewhere(i) =>
                    /\ Current = o /\ state[o] = None /\ state'[o] # None
                    /\ state[i] = None
                    /\ Conducts(e, state)
                    /\ state'[i] = state'[o]
             /\ (pc = "forward" /\ Current = o /\ state[o] = None /\ state'[o] # None
                 /\ Conducts(e, state)) => state'[i] = state'[o]
             /\ (pc = "forward" /\ Current = o /\ state[i] # None) => state'[i] = state[i]]_vars

\* C13 witness: the forward pass is over, and the signal input of a relay,
\* wired to nothing, has received the state its output adopted from a wire.
C13_Witness ==
    /\ pc = "done"
    /\ \E k \in Relays :
          LET e == elements[k]
          IN /\ nodes[e.inp[1]].connections = <<>>
             /\ reverse_state[e.inp[1]] = None /\ reverse_state[e.out[1]] = None
             /\ state[e.inp[1]] # None /\ state[e.inp[1]] = state[e.out[1]]

\* ------------------------------------------------------------------ C14
\* The input counts the evaluators accept.
SupportedArity(e) ==
    /\ e.objectType \in {"AndGate", "NandGate", "NorGate", "XorGate"} => Len(e.inp) = 2
    /\ e.objectType = "OrGate" => Len(e.inp) \in {2, 3}

\* C14: a run that ends without an error has no AND, NAND, NOR or XOR gate with
\* an input count other than 2 and no OR gate with an input count other than 2
\* or 3, seeded or not: every such gate makes the run fail.
C14_UnsupportedArityFails ==
    pc = "done" => \A k \in DOMAIN elements : SupportedArity(elements[k])

\* ------------------------------------------------------------------ C15
\* The state initialize_node_states gives node n.
Seed(n) == IF HasElement(n) /\ IsOutput(n) THEN SeedOf(ElementOf(n)) ELSE None

\* C15: when the unsupported-input-count error is raised no evaluator has been
\* reached: the successors graph has not been built, nothing is sorted, and
\* every node has the state initialization gave it.
C15_RaisedAtInitialization ==
    error = "unsupported" =>
        /\ \A n \in DOMAIN nodes : successors_by_node_index[n] = {}
        /\ sorted_nodes = <<>>
        /\ \A n \in DOMAIN nodes : state[n] = Seed(n)

\* ------------------------------------------------------------------ C16
\* Every gate of the netlist has an input count its evaluator accepts.
AllSupported == \A k \in DOMAIN elements : SupportedArity(elements[k])

\* The successors graph has been built.
GraphBuilt == pc \notin {"init", "successors"}

\* C16: when every gate has a supported input count and the successors graph
\* built after seeding is acyclic, no step of initialization, of the sort or of
\* the two passes raises an error, whatever states the nodes hold; a run that
\* ends with nodes still without a state ends without an error.
C16_NoError ==
    (AllSupported /\ (GraphBuilt => ~HasCycle)) => (error = "none" /\ pc # "failed")

\* C16 witness: a finished run of a netlist with a three-input OR gate, in which
\* an evaluator was called on inputs without a state and a node is left without
\* a state.
C16_Witness ==
    /\ pc = "done" /\ error = "none" /\ AllSupported /\ ~HasCycle
    /\ \E k \in DOMAIN elements :
          /\ elements[k].objectType = "OrGate" /\ Len(elements[k].inp) = 3
          /\ state[elements[k].out[1]] = None
    /\ \E n \in DOMAIN nodes : state[n] = High

\* ------------------------------------------------------------------ C17
\* The run in which the sort takes the members of every successors set in
\* ascending order: its sorted_nodes and the states its two passes produce.
RECURSIVE AscendingVisit(_, _)
RECURSIVE AscendingVisitAll(_, _, _)
AscendingVisit(index, sorted) ==
    IF index \in Range(sorted) THEN sorted
    ELSE Append(AscendingVisitAll(SortedSeq(successors_by_node_index[index]), 1, sorted),
                index)

AscendingVisitAll(indices, k, sorted) ==
    IF k > Len(indices) THEN sorted
    ELSE AscendingVisitAll(indices, k + 1, AscendingVisit(indices[k], sorted))

AscendingSort == AscendingVisitAll([i \in 1..Len(nodes) |-> i], 1, <<>>)

RECURSIVE ReversePassFrom(_, _, _)
ReversePassFrom(order, k, st) ==
    IF k = 0 THEN st
    ELSE LET index == order[k]
             evaluated == IF Evaluates(index, nodes, element_by_node_index, st)
                          THEN update_element(Owner(index), st) ELSE st
         IN ReversePassFrom(order, k - 1,
                IF nodes[index].type = OUTPUT_NODE
                THEN Flood(index, successors_by_node_index, evaluated) ELSE st)

RECURSIVE ForwardPassFrom(_, _, _)
ForwardPassFrom(order, k, st) ==
    IF k > Len(order) THEN st
    ELSE ForwardPassFrom(order, k + 1,
             IF st[order[k]] # None THEN st
             ELSE ForwardVisit(order[k], nodes, elements, element_by_node_index, st))

AscendingStates ==
    ForwardPassFrom(AscendingSort, 1,
        ReversePassFrom(AscendingSort, Len(AscendingSort), [n \in DOMAIN nodes |-> Seed(n)]))

\* C17: every run that ends without an error, whatever the order in which the
\* sort took the members of the successors sets, ends with the states of the
\* run that takes them in ascending order.
C17_OrderIndependent ==
    pc = "done" => state = AscendingStates

\* ------------------------------------------------------------------ C18
Terminated == pc \in {"done", "failed"}

\* Three nodes wired in a ring.
WireRing ==
    \E a, b, c \in DOMAIN nodes :
        /\ a # b /\ b # c /\ a # c
        /\ b \in Range(nodes[a].connections)
        /\ c \in Range(nodes[b].connections)
        /\ a \in Range(nodes[c].connections)

\* C18: every run ends: successor discovery, the sort and the two passes each
\* finish, with all states computed (pc "done") or with an error (pc "failed"),
\* an error being set exactly when the run has failed, also when the wires or
\* the successors relation have cycles.
C18_Terminates == <>Terminated /\ [](error # "none" <=> pc = "failed")

\* C18 witness: a run has ended with 'Cyclic graph!' on a netlist whose wires
\* form a ring.
C18_Witness == pc = "failed" /\ error = "cyclic" /\ WireRing

\* ------------------------------------------------------------------ C19
IsInput(n) == nodes[n].type = INPUT_NODE

IsRelay(e) == IsSubCircuit(e) /\ IsNormally(e.name)

\* The output nodes of element e.
SourcePorts(e) == {o \in element_nodes(e) : IsOutput(o)}

\* C19: once the graph is built, the successors of an input node of a
\* component that is not a relay are exactly the output nodes of that component
\* to which initialization gave no state; the successors of an input node
\* (signal or control) of a relay are exactly the relay's output nodes; an
\* input node of no component has no successors.
C19_SinkSuccessors ==
    GraphBuilt =>
        \A n \in DOMAIN nodes : IsInput(n) =>
            successors_by_node_index[n] =
                (IF ~HasElement(n) THEN {}
                 ELSE IF IsRelay(ElementOf(n)) THEN Range(ElementOf(n).out)
                 ELSE {o \in SourcePorts(ElementOf(n)) : Seed(o) = None})

\* C19 witness: the graph is built for a D flip-flop, whose input has no
\* successor, beside a NOR gate without a seed, whose inputs have its output as
\* their successor.
C19_Witness ==
    /\ pc = "sort"
    /\ \E k, g \in DOMAIN elements :
          /\ elements[k].objectType = "DflipFlop"
          /\ successors_by_node_index[elements[k].inp[1]] = {}
          /\ elements[g].objectType = "NorGate" /\ Seed(elements[g].out[1]) = None
          /\ \A i \in Range(elements[g].inp) :
                 successors_by_node_index[i] = {elements[g].out[1]}

\* ------------------------------------------------------------------ C20
\* C20: once the graph is built, the successors of an output node are exactly
\* the nodes of its wire net, itself excluded, that are not output nodes.
C20_SourceSuccessors ==
    GraphBuilt =>
        \A n \in DOMAIN nodes : IsOutput(n) =>
            successors_by_node_index[n] = {m \in Net(n) \ {n} : ~IsOutput(m)}

\* C20 witness: the graph is built, and an output node has a successor that its
\* wires reach only through another output node.
C20_Witness ==
    /\ pc = "sort"
    /\ \E s, t, j \in DOMAIN nodes :
          /\ IsOutput(s) /\ IsOutput(t) /\ s # t /\ ~IsOutput(j)
          /\ nodes[s].connections = <<t>>
          /\ j \in Range(nodes[t].connections)
          /\ j \in successors_by_node_index[s]

\* ------------------------------------------------------------------ C21
\* The places in the connections of node n of the neighbours that have a state.
DefinedNeighbours(n) ==
    {k \in DOMAIN nodes[n].connections : state[nodes[n].connections[k]] # None}

\* The first of these neighbours.
FirstNeighbour(n) ==
    nodes[n].connections[CHOOSE k \in DefinedNeighbours(n) :
                             \A j \in DefinedNeighbours(n) : k <= j]

\* C21: an iteration of the forward pass on a node without a state gives it the
\* state of the first of its connections, in the order of the list, that has a
\* state at that moment, and leaves it without a state when no connection has
\* one; an iteration on a node that has a state changes no state.
C21_ForwardAdoption ==
    [][pc = "forward" =>
          /\ (state[Current] # None) => state' = state
          /\ (state[Current] = None /\ DefinedNeighbours(Current) # {}) =>
                 state'[Current] = state[FirstNeighbour(Current)]
          /\ (state[Current] = None /\ DefinedNeighbours(Current) = {}) =>
                 state'[Current] = None]_vars

\* C21 witness: a node left without a state by the reverse pass, whose first
\* two connections then held different states, has the state of the first.
C21_Witness ==
    /\ pc \in {"forward", "done"}
    /\ \E n \in DOMAIN nodes :
          /\ reverse_state[n] = None /\ state[n] # None
          /\ Len(nodes[n].connections) >= 2
          /\ LET a == nodes[n].connections[1]
                 b == nodes[n].connections[2]
             IN /\ reverse_state[a] # None /\ reverse_state[b] # None
                /\ reverse_state[a] # reverse_state[b]
                /\ state[n] = reverse_state[a]

\* =========================================================================
\* scripts/src/flash_helper.py: the command loop and the Page class.  Words
\* are indexed from 1 here (from 0 in the Python).
\* ------------------------------------------------------------------ bounds
\* Commands taken from stdin in one run, and polls of a status register
\* before the device answers that it is ready.
MaxCommands == 4
MaxPolls == 2

\* --------------------------------------------------------------- constants
FLASH_BEGIN == 524288       \* 0x80000
FLASH_END == 1048576        \* 0x100000
PAGE_BYTES == 256
PAGE_WORDS == 64
WORD_BYTES == 4
SECOND_BANK == 1024         \* first page index of the second flash bank
EFC0_FCR == 1074661892      \* 0x400E0A04
EFC0_FSR == 1074661896      \* 0x400E0A08
EFC1_FCR == 1074662404      \* 0x400E0C04
EFC1_FSR == 1074662408      \* 0x400E0C08
WRITE_PAGE == 1509949443    \* 0x5A000003
RSTC_CR == 1074665984       \* 0x400E1A00

\* ------------------------------------------------------------ hexadecimal
HexDigits == <<"0", "1", "2", "3", "4", "5", "6", "7",
               "8", "9", "A", "B", "C", "D", "E", "F">>

RECURSIVE Hex(_, _)
\* f'{n:0{width}X}' for n < 16^width.
Hex(n, width) ==
    IF width = 0 THEN ""
    ELSE Hex(n \div 16, width - 1) \o HexDigits[(n % 16) + 1]

\* The numbers a word of the device holds in the runs checked.
WordValues == {0, 171}

\* The 8 digits the device answers for such a number: Hex(n, 8), as a table.
WordText(n) ==
    CASE n = 0 -> "00000000"
      [] n = 171 -> "000000AB"

\* int(text, 16) for the texts of the runs checked: leading zeros do not count.
HexValue(text) ==
    CASE text = "00000000" -> 0
      [] text \in {"000000AB", "AB"} -> 171

\* ----------------------------------------------------------------- device
\* What boot_helper.run writes to the serial port: 'W<address>,<value>#' and
\* 'w<address>,#'.
WriteCommand(address, value) == [op |-> "W", address |-> address, value |-> value]
ReadCommand(address) == [op |-> "w", address |-> address, value |-> ""]

PageAddress(index) == index * PAGE_BYTES + FLASH_BEGIN
WordAddress(index, i) == PageAddress(index) + WORD_BYTES * (i - 1)

\* boot_helper.run(f'w{address:08X},#').strip()[2:] for word i of page index:
\* the device answers '0x' and 8 digits.
ReadWord(mem, index, i) == WordText(mem[index][i])

\* ------------------------------------------------------------------- Page
\* Page(index): the 64 values read, and the commands sent to read them.
PageInit(mem, index) ==
    [values |-> [i \in 1..PAGE_WORDS |-> ReadWord(mem, index, i)], dirty |-> FALSE]

PageReads(index) == [i \in 1..PAGE_WORDS |-> ReadCommand(WordAddress(index, i))]

\* Faulty variant of Page.set: the page is marked dirty whatever the value.
PageSetAlways(page, i, value) ==
    [values |-> [page.values EXCEPT ![i] = value], dirty |-> TRUE]

\* Page.set(index, value), for word i = index + 1.
PageSet(page, i, value) ==
    IF value # page.values[i]
    THEN [values |-> [page.values EXCEPT ![i] = value], dirty |-> TRUE]
    ELSE page

\* wait_ready(register) when the device is ready at poll number polls.
WaitReady(register, polls) == [k \in 1..polls |-> ReadCommand(register)]

\* Page.flash() of a dirty page: the commands up to the read-back.  The command
\* word is 0x5A000003 | (index << 8): the index has fewer than 17 bits, so the
\* or is a sum.
PageWrites(index, page, polls) ==
    [i \in 1..PAGE_WORDS |-> WriteCommand(WordAddress(index, i), page.values[i])]
    \o (IF index < SECOND_BANK
        THEN <<WriteCommand(EFC0_FCR, Hex(WRITE_PAGE + index * 256, 8))>>
             \o WaitReady(EFC0_FSR, polls)
        ELSE <<WriteCommand(EFC1_FCR, Hex(WRITE_PAGE + (index - SECOND_BANK) * 256, 8))>>
             \o WaitReady(EFC1_FSR, polls))

\* The words of the page after the flash command, when the device stored the
\* page and when it did not.
Stored(mem, index, page, stored) ==
    IF stored THEN [i \in 1..PAGE_WORDS |-> HexValue(page.values[i])] ELSE mem[index]

\* The words at which the read-back finds int(value, 16) != int(self._values[i], 16).
Mismatches(words, page) ==
    {i \in 1..PAGE_WORDS : HexValue(WordText(words[i])) # HexValue(page.values[i])}

\* Page.flash(): the commands sent, the device's words afterwards, and whether
\* the read-back called exit.
PageFlash(mem, index, page, polls, stored) ==
    IF ~page.dirty THEN [sent |-> <<>>, words |-> mem[index], failed |-> FALSE]
    ELSE LET words == Stored(mem, index, page, stored)
             bad == Mismatches(words, page)
             last == IF bad = {} THEN PAGE_WORDS
                     ELSE CHOOSE i \in bad : \A j \in bad : i <= j
         IN [sent |-> PageWrites(index, page, polls)
                      \o [i \in 1..last |-> ReadCommand(WordAddress(index, i))],
             words |-> words,
             failed |-> bad # {}]

RECURSIVE FlashPages(_, _, _, _, _, _)
\* for _, page in sorted(pages.items()): page.flash(), from the k-th page of
\* order on; polls and stored say how the device behaves for each page that
\* is written.
FlashPages(order, k, cache, polls, stored, acc) ==
    IF k > Len(order) \/ acc.failed THEN acc
    ELSE LET index == order[k]
             r == IF cache[index].dirty
                  THEN PageFlash(acc.memory, index, cache[index], polls[index], stored[index])
                  ELSE PageFlash(acc.memory, index, cache[index], 0, FALSE)
         IN FlashPages(order, k + 1, cache, polls, stored,
                [sent |-> acc.sent \o r.sent,
                 memory |-> [acc.memory EXCEPT ![index] = r.words],
                 failed |-> r.failed])

\* -------------------------------------------------------------- the input
\* The commands of the runs checked.  W commands address the first and the last
\* word of a page of each flash bank with a value of 8 digits or of 2, an
\* address that is not a multiple of 4, and the two addresses next to the
\* range of the flash; w is a read command.
PageIndices == {1, SECOND_BANK}
Words == {1, PAGE_WORDS}
Values == {"00000000", "000000AB", "AB"}

Command(kind, address, value) == [kind |-> kind, address |-> address, value |-> value]
NoCommand == [kind |-> "none"]

PageCommands == {Command("W", WordAddress(p, i), v) : p \in PageIndices, i \in Words, v \in Values}
OddCommands == {Command("W", PageAddress(1) + 2, v) : v \in Values}
OtherCommands ==
    {Command("W", FLASH_BEGIN - WORD_BYTES, "AB"), Command("W", FLASH_END, "AB"),
     Command("w", PageAddress(1), "")}

\* page, word = (address - 0x80000) // 256, (address % 256) // 4
PageOf(address) == (address - FLASH_BEGIN) \div PAGE_BYTES
WordOf(address) == (address % PAGE_BYTES) \div WORD_BYTES + 1

InFlash(address) == address >= FLASH_BEGIN /\ address < FLASH_END

\* -------------------------------------------------------------- main loop
\* The script starts: no page is cached; every word of the device's pages
\* holds the same number.
FlashInit ==
    /\ nodes = <<>> /\ elements = <<>> /\ state = <<>>
    /\ element_by_node_index = <<>> /\ successors_by_node_index = <<>>
    /\ sorted_nodes = <<>> /\ node_status = <<>> /\ stack = <<>>
    /\ pc = "flash_helper" /\ pos = 0 /\ error = "none" /\ updated = 0
    /\ reverse_state = <<>>
    /\ pages = <<>>
    /\ \E n \in WordValues : memory = [p \in PageIndices |-> [i \in 1..PAGE_WORDS |-> n]]
    /\ command = NoCommand
    /\ sent = <<>>
    /\ count = 0
    /\ running = "running"

\* The loop takes one more command.
Takes(c) ==
    /\ running = "running" /\ count < MaxCommands
    /\ command' = c
    /\ count' = count + 1
    /\ UNCHANGED cv2tikz_vars

\* input() raises EOFError: exit('').
EndOfInput ==
    /\ Takes(Command("EOF", 0, ""))
    /\ running' = "exit" /\ sent' = <<>>
    /\ UNCHANGED <<pages, memory>>

\* 'exit#'
Exit ==
    /\ Takes(Command("exit#", 0, ""))
    /\ running' = "exit" /\ sent' = <<>>
    /\ UNCHANGED <<pages, memory>>

\* The cached pages that Page.flash() writes.
Dirty(cache) == {p \in DOMAIN cache : cache[p].dirty}

\* Faulty variant of Flash: the cache is not emptied after the pages are flashed.
FlashKeep ==
    /\ Takes(Command("flash#", 0, ""))
    /\ \E polls \in [Dirty(pages) -> 1..MaxPolls], stored \in [Dirty(pages) -> BOOLEAN] :
         LET r == FlashPages(SortedSeq(DOMAIN pages), 1, pages, polls, stored,
                             [sent |-> <<>>, memory |-> memory, failed |-> FALSE])
         IN /\ sent' = r.sent
            /\ memory' = r.memory
            /\ pages' = pages
            /\ running' = IF r.failed THEN "error" ELSE "running"

\* 'flash#': every cached page is flashed in the order of the sorted indices,
\* then the cache is emptied; a failed read-back exits before that.
Flash ==
    /\ Takes(Command("flash#", 0, ""))
    /\ \E polls \in [Dirty(pages) -> 1..MaxPolls], stored \in [Dirty(pages) -> BOOLEAN] :
         LET r == FlashPages(SortedSeq(DOMAIN pages), 1, pages, polls, stored,
                             [sent |-> <<>>, memory |-> memory, failed |-> FALSE])
         IN /\ sent' = r.sent
            /\ memory' = r.memory
            /\ pages' = IF r.failed THEN pages ELSE <<>>
            /\ running' = IF r.failed THEN "error" ELSE "running"

\* 'reset#': boot from flash, wait, reset the device and exit.
Reset ==
    /\ Takes(Command("reset#", 0, ""))
    /\ \E polls \in 1..MaxPolls :
         sent' = <<WriteCommand(EFC0_FCR, "5A00010B")>> \o WaitReady(EFC0_FSR, polls)
                 \o <<WriteCommand(RSTC_CR, "A500000D")>>
    /\ running' = "exit"
    /\ UNCHANGED <<pages, memory>>

\* A W command for a word of the flash: the page is read if it is not cached,
\* and the value is put in its buffer.
BufferWrite ==
    \E c \in PageCommands :
        /\ InFlash(c.address) /\ c.address % WORD_BYTES = 0
        /\ Takes(c)
        /\ LET p == PageOf(c.address)
               page == IF p \in DOMAIN pages THEN pages[p] ELSE PageInit(memory, p)
           IN /\ pages' = [j \in DOMAIN pages \cup {p} |->
                              IF j = p THEN PageSet(page, WordOf(c.address), c.value)
                              ELSE pages[j]]
              /\ sent' = IF p \in DOMAIN pages THEN <<>> ELSE PageReads(p)
        /\ UNCHANGED <<memory, running>>

\* A W command for an address of the flash that is not a multiple of 4:
\* exit('ERROR: invalid address').
InvalidAddress ==
    \E c \in OddCommands :
        /\ InFlash(c.address) /\ c.address % WORD_BYTES # 0
        /\ Takes(c)
        /\ running' = "error" /\ sent' = <<>>
        /\ UNCHANGED <<pages, memory>>

\* Any other command goes to boot_helper.run as it is.
Forward ==
    \E c \in OtherCommands :
        /\ ~(c.kind = "W" /\ InFlash(c.address))
        /\ Takes(c)
        /\ sent' = <<[op |-> c.kind, address |-> c.address, value |-> c.value]>>
        /\ UNCHANGED <<pages, memory, running>>

FlashNext ==
    \/ EndOfInput
    \/ Exit
    \/ Flash
    \/ Reset
    \/ BufferWrite
    \/ InvalidAddress
    \/ Forward

SpecFlash == FlashInit /\ [][FlashNext]_vars

\* ------------------------------------------------------------------ C22
\* The command taken last is a W command for a word of the flash.
IsPageWrite(c) == c.kind = "W" /\ InFlash(c.address) /\ c.address % WORD_BYTES = 0

\* The places in sent of the writes to words of the flash.
WordWrites == {k \in DOMAIN sent : sent[k].op = "W" /\ InFlash(sent[k].address)}

\* What holds after every command.
DeferredState ==
    /\ IsPageWrite(command) =>
          /\ \A k \in DOMAIN sent :
                sent[k].op = "w" /\ PageOf(sent[k].address) = PageOf(command.address)
          /\ PageOf(command.address) \in DOMAIN pages
          /\ pages[PageOf(command.address)].values[WordOf(command.address)] = command.value
    /\ WordWrites # {} => command.kind = "flash#"
    /\ \A j, k \in WordWrites : j < k => PageOf(sent[j].address) <= PageOf(sent[k].address)
    /\ (command.kind = "flash#" /\ running = "running") => pages = <<>>

\* What holds of every step that takes a command.
DeferredStep ==
    /\ IsPageWrite(command') =>
          /\ memory' = memory
          /\ Len(sent') = (IF PageOf(command'.address) \in DOMAIN pages THEN 0 ELSE PAGE_WORDS)
    /\ (command.kind = "flash#" /\ command'.kind = "flash#") => sent' = <<>>

\* C22: a W command for a word of the flash sends no write to the device: it
\* puts the value in the buffer of the page, after the 64 reads of the page when
\* the page was not cached; the device receives writes to words of the flash
\* only while a flash# command is processed, page after page in ascending
\* order of the indices; after flash# no page is cached, and a flash# that
\* follows a flash# sends nothing.
C22_DeferredWrites == []DeferredState /\ [][count' # count => DeferredStep]_vars

\* C22 witness: the third command of a run is a flash# that sends nothing, the
\* device holding a word a flash# before it has written.
C22_Witness ==
    /\ command.kind = "flash#" /\ count = 3 /\ sent = <<>> /\ running = "running"
    /\ \E p \in PageIndices : \E i, j \in 1..PAGE_WORDS : memory[p][i] # memory[p][j]

\* ------------------------------------------------------------------ C23
\* The command that writes page index to the flash.
FlashPageCommand(index) ==
    IF index < SECOND_BANK
    THEN WriteCommand(EFC0_FCR, Hex(WRITE_PAGE + index * 256, 8))
    ELSE WriteCommand(EFC1_FCR, Hex(WRITE_PAGE + (index - SECOND_BANK) * 256, 8))

\* Command m is a word write, the flash-page command or a read-back of page index.
Concerns(m, index) ==
    \/ InFlash(m.address) /\ PageOf(m.address) = index
    \/ m = FlashPageCommand(index)

\* Nothing in the sequence of commands concerns page index.
NotWritten(commands, index) == \A k \in DOMAIN commands : ~Concerns(commands[k], index)

\* The buffered words of cached page index are the texts of the device's words.
\* The device's words change in flash# steps only, which empty the cache or end
\* the program, so that they are the words read when the page was loaded.
SameAsLoaded(index) ==
    \A i \in 1..PAGE_WORDS : pages[index].values[i] = ReadWord(memory, index, i)

\* The page of the cache a W command finds: the cached one, or the one it loads.
Found(index) == IF index \in DOMAIN pages THEN pages[index] ELSE PageInit(memory, index)

\* The claim as stated: at flash#, a cached page whose 64 buffered words are
\* the words read when it was loaded is not written, whatever W commands
\* came before.
C23_UnchangedNotWritten ==
    [][(count' # count /\ command'.kind = "flash#") =>
          \A p \in DOMAIN pages : SameAsLoaded(p) => NotWritten(sent', p)]_vars

\* What holds of every step that takes a command.
DirtyStep ==
    /\ IsPageWrite(command') =>
          LET p == PageOf(command'.address)
              w == WordOf(command'.address)
          IN pages'[p].dirty = (Found(p).dirty \/ command'.value # Found(p).values[w])
    /\ command'.kind = "flash#" =>
          \A p \in DOMAIN pages : ~pages[p].dirty => NotWritten(sent', p)

\* C23: a cached page is dirty exactly when some W command since it was loaded
\* carried a text different from the text then buffered for its word, and it
\* stays dirty when later W commands put the loaded texts back; at flash# a
\* cached page that is not dirty is not written: no word write, no flash-page
\* command and no read-back is sent for it.
C23_DirtyTracking == [][count' # count => DirtyStep]_vars

\* C23 witness: a flash# found page 1 cached and not dirty and a later page
\* dirty; nothing was sent for page 1, and the read-back of the later page failed.
C23_Witness ==
    /\ command.kind = "flash#" /\ running = "error"
    /\ 1 \in DOMAIN pages /\ ~pages[1].dirty /\ SameAsLoaded(1)
    /\ NotWritten(sent, 1)
    /\ \E k \in DOMAIN sent : sent[k] = FlashPageCommand(SECOND_BANK)

====
